---- MODULE Spec2Model ----
(***************************************************************************)
(* Model of src/app.py: the Maximum Subarray game.                         *)
(*   - generate_array: the rejection-sampling loop that builds nums        *)
(*   - kadane: the batch solver                                            *)
(*   - reset_kadane_state / reset_game / advance_kadane_step: the walk     *)
(*   - play_game: the grading of a user range                              *)
(* Python lists are 0-indexed; sequences here are 1-indexed, so nums[i] of *)
(* the source is At(nums, i).                                              *)
(***************************************************************************)
EXTENDS Integers, Sequences, FiniteSets, TLC

VARIABLES nums, kadane_idx, current_sum, current_start, best_sum, best_start,
          best_end, last_step_info, advances, outcome, kres,
          g_n, g_low, g_high, g_nums, g_pc

walk == <<kadane_idx, current_sum, current_start, best_sum, best_start, best_end>>
session == <<nums, kadane_idx, current_sum, current_start, best_sum, best_start,
             best_end, last_step_info, advances>>
gen == <<g_n, g_low, g_high, g_nums, g_pc>>
vars == <<nums, kadane_idx, current_sum, current_start, best_sum, best_start,
          best_end, last_step_info, advances, outcome, kres,
          g_n, g_low, g_high, g_nums, g_pc>>

\* ---------------------------------------------------------------- bounds
\* length of the session's sequence (stands for the default n = 9)
DefaultN == 4
\* largest magnitude of an element (stands for the defaults low = -9, high = 9)
MaxAbs == 2
\* longest sequence handed to kadane and to the grading code
MaxLen == 5
\* largest n handed to generate_array when it is called on its own
MaxGenN == 2

DefaultLow == 0 - MaxAbs
DefaultHigh == MaxAbs

\* ---------------------------------------------------------------- helpers
\* nums[i] with Python's 0-based index (0 <= i < len)
At(s, i) == s[i + 1]

\* sum(list)
RECURSIVE Sum(_)
Sum(s) == IF s = <<>> THEN 0 ELSE Head(s) + Sum(Tail(s))

\* Python's normalisation of one slice bound against a list of length n
SliceBound(b, n) ==
    IF b < 0 THEN (IF b + n < 0 THEN 0 ELSE b + n)
    ELSE (IF b > n THEN n ELSE b)

\* nums[a:b]
PySlice(s, a, b) ==
    LET lo == SliceBound(a, Len(s))
        hi == SliceBound(b, Len(s))
    IN  IF lo < hi THEN SubSeq(s, lo + 1, hi) ELSE <<>>

\* the values random.randint(low, high) can return and the loop keeps
NonZero(low, high) == (low .. high) \ {0}

\* the lists generate_array(n, low, high) can return
generate_array(n, low, high) == [1 .. n -> NonZero(low, high)]

\* ---------------------------------------------------------------- kadane
\* kadane, lines 20-23: the locals before the loop
KadaneInit(s) ==
    [current_sum |-> At(s, 0), current_start |-> 0,
     best_sum |-> At(s, 0), best_start |-> 0, best_end |-> 0]

\* a loop body that overwrites the best range on equal sums
KadaneBody_overwriteTies(st, s, i) ==
    LET restart == At(s, i) > st.current_sum + At(s, i)
        cs == IF restart THEN At(s, i) ELSE st.current_sum + At(s, i)
        cstart == IF restart THEN i ELSE st.current_start
    IN  IF cs >= st.best_sum
        THEN [current_sum |-> cs, current_start |-> cstart,
              best_sum |-> cs, best_start |-> cstart, best_end |-> i]
        ELSE [st EXCEPT !.current_sum = cs, !.current_start = cstart]

\* a loop body that forgets to move best_start with the best sum
KadaneBody_staleStart(st, s, i) ==
    LET restart == At(s, i) > st.current_sum + At(s, i)
        cs == IF restart THEN At(s, i) ELSE st.current_sum + At(s, i)
        cstart == IF restart THEN i ELSE st.current_start
    IN  IF cs > st.best_sum
        THEN [current_sum |-> cs, current_start |-> cstart,
              best_sum |-> cs, best_start |-> st.best_start, best_end |-> i]
        ELSE [st EXCEPT !.current_sum = cs, !.current_start = cstart]

\* a loop body that starts fresh on equal candidates (>= for >)
KadaneBody_restartOnTie(st, s, i) ==
    LET restart == At(s, i) >= st.current_sum + At(s, i)
        cs == IF restart THEN At(s, i) ELSE st.current_sum + At(s, i)
        cstart == IF restart THEN i ELSE st.current_start
    IN  IF cs > st.best_sum
        THEN [current_sum |-> cs, current_start |-> cstart,
              best_sum |-> cs, best_start |-> cstart, best_end |-> i]
        ELSE [st EXCEPT !.current_sum = cs, !.current_start = cstart]

\* kadane, lines 26-37: one iteration of the loop, for index i
KadaneBody(st, s, i) ==
    LET restart == At(s, i) > st.current_sum + At(s, i)
        cs == IF restart THEN At(s, i) ELSE st.current_sum + At(s, i)
        cstart == IF restart THEN i ELSE st.current_start
    IN  IF cs > st.best_sum
        THEN [current_sum |-> cs, current_start |-> cstart,
              best_sum |-> cs, best_start |-> cstart, best_end |-> i]
        ELSE [st EXCEPT !.current_sum = cs, !.current_start = cstart]

\* kadane's locals after the loop has processed index k (k = 0: before it)
RECURSIVE KadaneLoop(_, _)
KadaneLoop(s, k) ==
    IF k = 0 THEN KadaneInit(s) ELSE KadaneBody(KadaneLoop(s, k - 1), s, k)

\* kadane(nums): (best_sum, best_start, best_end)
kadane(s) ==
    LET st == KadaneLoop(s, Len(s) - 1)
    IN  <<st.best_sum, st.best_start, st.best_end>>

\* ---------------------------------------------------------------- walk
\* a reset that leaves the best range of the previous walk in place
ResetFields_staleBest(s) ==
    /\ kadane_idx' = 0
    /\ current_sum' = At(s, 0)
    /\ best_sum' = At(s, 0)
    /\ current_start' = 0
    /\ UNCHANGED <<best_start, best_end>>
    /\ last_step_info' = [kind |-> "start", index |-> 0, number |-> At(s, 0),
                          current |-> At(s, 0), best |-> At(s, 0),
                          from |-> 0, to |-> 0, improved |-> FALSE]
    /\ advances' = 0

\* reset_kadane_state, lines 83-92, on the sequence s
ResetFields(s) ==
    /\ kadane_idx' = 0
    /\ current_sum' = At(s, 0)
    /\ best_sum' = At(s, 0)
    /\ current_start' = 0
    /\ best_start' = 0
    /\ best_end' = 0
    /\ last_step_info' = [kind |-> "start", index |-> 0, number |-> At(s, 0),
                          current |-> At(s, 0), best |-> At(s, 0),
                          from |-> 0, to |-> 0, improved |-> FALSE]
    /\ advances' = 0

\* reset_kadane_state as a request of its own ("Reset walk")
ResetKadaneState ==
    /\ ResetFields(nums)
    /\ UNCHANGED <<nums, outcome, kres, gen>>

\* reset_game: new numbers, then reset_kadane_state
ResetGame ==
    /\ nums' \in generate_array(DefaultN, DefaultLow, DefaultHigh)
    /\ ResetFields(nums')
    /\ UNCHANGED <<outcome, kres, gen>>

\* the narrative of the terminal branch, lines 108-111
DoneInfo ==
    [kind |-> "done", index |-> kadane_idx, number |-> At(nums, kadane_idx),
     current |-> current_sum, best |-> best_sum,
     from |-> best_start, to |-> best_end, improved |-> FALSE]

\* an advance that starts the walk over when it is at the last index
AdvanceKadaneStep_wrap ==
    LET idx == kadane_idx IN
    /\ advances' = IF advances < Len(nums) THEN advances + 1 ELSE advances
    /\ UNCHANGED <<nums, outcome, kres, gen>>
    /\ IF idx >= Len(nums) - 1
       THEN /\ last_step_info' = DoneInfo
            /\ kadane_idx' = 0
            /\ current_sum' = At(nums, 0)
            /\ current_start' = 0
            /\ UNCHANGED <<best_sum, best_start, best_end>>
       ELSE LET i == idx + 1
                option_continue == current_sum + At(nums, i)
                option_new == At(nums, i)
                fresh == option_new > option_continue
                new_curr_sum == IF fresh THEN option_new ELSE option_continue
                new_curr_start == IF fresh THEN i ELSE current_start
                improved == new_curr_sum > best_sum
            IN  /\ kadane_idx' = i
                /\ current_sum' = new_curr_sum
                /\ current_start' = new_curr_start
                /\ best_sum' = IF improved THEN new_curr_sum ELSE best_sum
                /\ best_start' = IF improved THEN new_curr_start ELSE best_start
                /\ best_end' = IF improved THEN i ELSE best_end
                /\ last_step_info' =
                     [kind |-> IF fresh THEN "fresh" ELSE "keep", index |-> i,
                      number |-> At(nums, i), current |-> new_curr_sum,
                      best |-> IF improved THEN new_curr_sum ELSE best_sum,
                      from |-> IF improved THEN new_curr_start ELSE best_start,
                      to |-> IF improved THEN i ELSE best_end,
                      improved |-> improved]

\* an advance that starts fresh on equal candidates (>= for >)
AdvanceKadaneStep_freshOnTie ==
    LET idx == kadane_idx IN
    /\ advances' = IF advances < Len(nums) THEN advances + 1 ELSE advances
    /\ UNCHANGED <<nums, outcome, kres, gen>>
    /\ IF idx >= Len(nums) - 1
       THEN /\ last_step_info' = DoneInfo
            /\ UNCHANGED walk
       ELSE LET i == idx + 1
                option_continue == current_sum + At(nums, i)
                option_new == At(nums, i)
                fresh == option_new >= option_continue
                new_curr_sum == IF fresh THEN option_new ELSE option_continue
                new_curr_start == IF fresh THEN i ELSE current_start
                improved == new_curr_sum > best_sum
            IN  /\ kadane_idx' = i
                /\ current_sum' = new_curr_sum
                /\ current_start' = new_curr_start
                /\ best_sum' = IF improved THEN new_curr_sum ELSE best_sum
                /\ best_start' = IF improved THEN new_curr_start ELSE best_start
                /\ best_end' = IF improved THEN i ELSE best_end
                /\ last_step_info' =
                     [kind |-> IF fresh THEN "fresh" ELSE "keep", index |-> i,
                      number |-> At(nums, i), current |-> new_curr_sum,
                      best |-> IF improved THEN new_curr_sum ELSE best_sum,
                      from |-> IF improved THEN new_curr_start ELSE best_start,
                      to |-> IF improved THEN i ELSE best_end,
                      improved |-> improved]

\* an advance that never takes over a new best sum
AdvanceKadaneStep_noBest ==
    LET idx == kadane_idx IN
    /\ advances' = IF advances < Len(nums) THEN advances + 1 ELSE advances
    /\ UNCHANGED <<nums, outcome, kres, gen>>
    /\ IF idx >= Len(nums) - 1
       THEN /\ last_step_info' = DoneInfo
            /\ UNCHANGED walk
       ELSE LET i == idx + 1
                option_continue == current_sum + At(nums, i)
                option_new == At(nums, i)
                fresh == option_new > option_continue
                new_curr_sum == IF fresh THEN option_new ELSE option_continue
                new_curr_start == IF fresh THEN i ELSE current_start
            IN  /\ kadane_idx' = i
                /\ current_sum' = new_curr_sum
                /\ current_start' = new_curr_start
                /\ UNCHANGED <<best_sum, best_start, best_end>>
                /\ last_step_info' =
                     [kind |-> IF fresh THEN "fresh" ELSE "keep", index |-> i,
                      number |-> At(nums, i), current |-> new_curr_sum,
                      best |-> best_sum, from |-> best_start, to |-> best_end,
                      improved |-> FALSE]

\* advance_kadane_step
AdvanceKadaneStep ==
    LET idx == kadane_idx IN
    /\ advances' = IF advances < Len(nums) THEN advances + 1 ELSE advances
    /\ UNCHANGED <<nums, outcome, kres, gen>>
    /\ IF idx >= Len(nums) - 1
       THEN /\ last_step_info' = DoneInfo
            /\ UNCHANGED walk
       ELSE LET i == idx + 1
                option_continue == current_sum + At(nums, i)
                option_new == At(nums, i)
                fresh == option_new > option_continue
                new_curr_sum == IF fresh THEN option_new ELSE option_continue
                new_curr_start == IF fresh THEN i ELSE current_start
                improved == new_curr_sum > best_sum
            IN  /\ kadane_idx' = i
                /\ current_sum' = new_curr_sum
                /\ current_start' = new_curr_start
                /\ best_sum' = IF improved THEN new_curr_sum ELSE best_sum
                /\ best_start' = IF improved THEN new_curr_start ELSE best_start
                /\ best_end' = IF improved THEN i ELSE best_end
                /\ last_step_info' =
                     [kind |-> IF fresh THEN "fresh" ELSE "keep", index |-> i,
                      number |-> At(nums, i), current |-> new_curr_sum,
                      best |-> IF improved THEN new_curr_sum ELSE best_sum,
                      from |-> IF improved THEN new_curr_start ELSE best_start,
                      to |-> IF improved THEN i ELSE best_end,
                      improved |-> improved]

\* ---------------------------------------------------------------- grading
NoOutcome ==
    [status |-> "none", start |-> 0, end |-> 0, summed |-> FALSE, user_sum |-> 0]

\* a grading that calls every path with the best total a perfect pick
play_game_sumOnly(s, start_idx, end_idx, clicked) ==
    IF start_idx > end_idx
    THEN [status |-> "warning", start |-> start_idx, end |-> end_idx,
          summed |-> FALSE, user_sum |-> 0]
    ELSE LET user_sum == Sum(PySlice(s, start_idx, end_idx + 1))
             best == kadane(s)
             status == IF ~clicked THEN "chosen"
                       ELSE IF user_sum = best[1] THEN "success"
                       ELSE "error"
         IN  [status |-> status, start |-> start_idx, end |-> end_idx,
              summed |-> TRUE, user_sum |-> user_sum]

\* play_game, lines 194-224: what it shows for the pair (start_idx, end_idx)
\* it is handed; clicked is the value of the "Check my answer" button
play_game(s, start_idx, end_idx, clicked) ==
    IF start_idx > end_idx
    THEN [status |-> "warning", start |-> start_idx, end |-> end_idx,
          summed |-> FALSE, user_sum |-> 0]
    ELSE LET user_sum == Sum(PySlice(s, start_idx, end_idx + 1))
             best == kadane(s)
             status == IF ~clicked THEN "chosen"
                       ELSE IF user_sum = best[1] /\ start_idx = best[2]
                               /\ end_idx = best[3] THEN "success"
                       ELSE IF user_sum = best[1] THEN "info"
                       ELSE "error"
         IN  [status |-> status, start |-> start_idx, end |-> end_idx,
              summed |-> TRUE, user_sum |-> user_sum]

\* ---------------------------------------------------------------- session
Init ==
    /\ nums \in generate_array(DefaultN, DefaultLow, DefaultHigh)
    /\ kadane_idx = 0
    /\ current_sum = At(nums, 0)
    /\ best_sum = At(nums, 0)
    /\ current_start = 0
    /\ best_start = 0
    /\ best_end = 0
    /\ last_step_info = [kind |-> "start", index |-> 0, number |-> At(nums, 0),
                         current |-> At(nums, 0), best |-> At(nums, 0),
                         from |-> 0, to |-> 0, improved |-> FALSE]
    /\ advances = 0
    /\ outcome = NoOutcome
    /\ kres = <<>>
    /\ g_n = 1 /\ g_low = DefaultLow /\ g_high = DefaultHigh
    /\ g_nums = <<>> /\ g_pc = "idle"

Next ==
    \/ ResetGame
    \/ ResetKadaneState
    \/ AdvanceKadaneStep

Spec == Init /\ [][Next]_vars

\* ------------------------------------------------- the functions on their own
\* the sequences kadane and the grading are applied to: every length 1..MaxLen
Inputs == UNION {generate_array(n, DefaultLow, DefaultHigh) : n \in 1 .. MaxLen}

InitPure ==
    /\ nums \in Inputs
    /\ kadane_idx = 0
    /\ current_sum = At(nums, 0)
    /\ best_sum = At(nums, 0)
    /\ current_start = 0
    /\ best_start = 0
    /\ best_end = 0
    /\ last_step_info = [kind |-> "start", index |-> 0, number |-> At(nums, 0),
                         current |-> At(nums, 0), best |-> At(nums, 0),
                         from |-> 0, to |-> 0, improved |-> FALSE]
    /\ advances = 0
    /\ outcome = NoOutcome
    /\ kres = <<>>
    /\ g_n = 1 /\ g_low = DefaultLow /\ g_high = DefaultHigh
    /\ g_nums = <<>> /\ g_pc = "idle"

\* a call of kadane(nums)
Solve ==
    /\ kres = <<>>
    /\ outcome = NoOutcome
    /\ kres' = kadane(nums)
    /\ UNCHANGED <<session, outcome, gen>>

\* the grading code applied to any pair of indexes, one past either end included
Grade ==
    /\ kres = <<>>
    /\ outcome = NoOutcome
    /\ \E a \in -1 .. Len(nums), b \in -1 .. Len(nums), clicked \in BOOLEAN :
          outcome' = play_game(nums, a, b, clicked)
    /\ UNCHANGED <<session, kres, gen>>

NextPure ==
    \/ Solve
    \/ Grade

SpecPure == InitPure /\ [][NextPure]_vars

\* ------------------------------------------------- generate_array, step by step
InitGen ==
    /\ nums = [i \in 1 .. DefaultN |-> 1]
    /\ kadane_idx = 0
    /\ current_sum = 1
    /\ best_sum = 1
    /\ current_start = 0
    /\ best_start = 0
    /\ best_end = 0
    /\ last_step_info = [kind |-> "start", index |-> 0, number |-> 1,
                         current |-> 1, best |-> 1,
                         from |-> 0, to |-> 0, improved |-> FALSE]
    /\ advances = 0
    /\ outcome = NoOutcome
    /\ kres = <<>>
    /\ g_n \in 1 .. MaxGenN
    /\ g_low \in DefaultLow .. DefaultHigh
    /\ g_high \in DefaultLow .. DefaultHigh
    /\ g_nums = <<>>
    /\ g_pc = "test"

\* line 11: the loop condition; line 15 when it is false
GenTest ==
    /\ g_pc = "test"
    /\ g_pc' = IF Len(g_nums) < g_n THEN "draw" ELSE "returned"
    /\ UNCHANGED <<session, outcome, kres, g_n, g_low, g_high, g_nums>>

\* line 12 with low > high: random.randint raises ValueError (empty range)
GenRaise ==
    /\ g_pc = "draw"
    /\ g_low > g_high
    /\ g_pc' = "raised"
    /\ UNCHANGED <<session, outcome, kres, g_n, g_low, g_high, g_nums>>

\* lines 12-14: a drawn value is appended unless it is 0; back to the loop test
GenDraw ==
    /\ g_pc = "draw"
    /\ g_low <= g_high
    /\ \E x \in g_low .. g_high :
          g_nums' = IF x # 0 THEN Append(g_nums, x) ELSE g_nums
    /\ g_pc' = "test"
    /\ UNCHANGED <<session, outcome, kres, g_n, g_low, g_high>>

NextGen ==
    \/ GenTest
    \/ GenRaise
    \/ GenDraw

\* the interpreter keeps running the loop: a step that can be taken is taken
FairSpecGen == InitGen /\ [][NextGen]_vars /\ WF_vars(NextGen)

\* ---------------------------------------------------------------- properties
\* the sum of s over the inclusive 0-based range a..b
RangeSum(s, a, b) == Sum(SubSeq(s, a + 1, b + 1))

\* every contiguous non-empty subrange of s, as an inclusive 0-based pair
Ranges(s) == {r \in (0 .. Len(s) - 1) \X (0 .. Len(s) - 1) : r[1] <= r[2]}

\* the subranges of s whose sum no subrange exceeds
MaxRanges(s) ==
    {r \in Ranges(s) :
        \A q \in Ranges(s) : RangeSum(s, q[1], q[2]) <= RangeSum(s, r[1], r[2])}

\* the subranges of the prefix s[0..k]
PrefixRanges(k) == {r \in (0 .. k) \X (0 .. k) : r[1] <= r[2]}

\* pairs (a, b) of disjoint maximal-sum subranges of s, a the earlier one
DisjointMaxPairs(s) ==
    {p \in MaxRanges(s) \X MaxRanges(s) : p[1][2] < p[2][1]}

Solved == kres # <<>>

\* C1: kadane returns a range inside the sequence, the sum of that range, and
\* no contiguous subrange of the sequence has a greater sum.
C1_KadaneIsMaximal ==
    Solved =>
        /\ 0 <= kres[2] /\ kres[2] <= kres[3] /\ kres[3] < Len(nums)
        /\ kres[1] = RangeSum(nums, kres[2], kres[3])
        /\ \A r \in Ranges(nums) : kres[1] >= RangeSum(nums, r[1], r[2])

C1_Witness ==
    /\ Solved
    /\ Len(nums) >= 3
    /\ 0 < kres[2] /\ kres[2] < kres[3] /\ kres[3] < Len(nums) - 1

\* C2: after reset and k <= len-1 advances the walk is at index k and holds
\* the values kadane's loop holds after processing index k.
C2_WalkEqualsLoop ==
    advances <= Len(nums) - 1 =>
        /\ kadane_idx = advances
        /\ LET st == KadaneLoop(nums, advances)
           IN  /\ current_sum = st.current_sum
               /\ current_start = st.current_start
               /\ best_sum = st.best_sum
               /\ best_start = st.best_start
               /\ best_end = st.best_end

C2_Witness ==
    /\ advances = Len(nums) - 1
    /\ advances >= 2
    /\ kadane_idx = advances
    /\ current_start > 0
    /\ best_end > 0
    /\ best_end < kadane_idx

Finished == kadane_idx = Len(nums) - 1

\* C3: from a finished walk a step that is not a reset leaves the six numeric
\* fields as they are, and only a reset takes the walk out of the finished state.
C3_FinishedIsStable ==
    [][Finished =>
         \/ ResetGame
         \/ ResetKadaneState
         \/ (UNCHANGED walk /\ Finished')]_vars

C3_Witness ==
    /\ Finished
    /\ Len(nums) > 1
    /\ advances = Len(nums)
    /\ last_step_info.kind = "done"

\* C4, as stated: of two disjoint maximal-sum subranges kadane returns the one
\* that starts at the smaller index.
C4_ReturnsEarlierOfPair ==
    Solved =>
        \A p \in DisjointMaxPairs(nums) : <<kres[2], kres[3]>> = p[1]

\* C4, amended: kadane returns a maximal-sum subrange that starts and ends no
\* later than the earlier of the two, and it is the earlier one unless another
\* maximal-sum subrange starts before it or starts with it and is shorter.
C4_ReturnsNoLaterThanPair ==
    Solved =>
        \A p \in DisjointMaxPairs(nums) :
            /\ <<kres[2], kres[3]>> \in MaxRanges(nums)
            /\ kres[2] <= p[1][1]
            /\ kres[3] <= p[1][2]
            /\ (~ \E c \in MaxRanges(nums) :
                    \/ c[1] < p[1][1]
                    \/ (c[1] = p[1][1] /\ c[2] < p[1][2]))
               => <<kres[2], kres[3]>> = p[1]

C4_Witness ==
    /\ Solved
    /\ nums = <<2, -2, 2>>
    /\ <<<<0, 0>>, <<2, 2>>>> \in DisjointMaxPairs(nums)
    /\ kres = <<2, 0, 0>>

\* C5: among the maximal-sum subranges the returned one has the smallest
\* start index, and among those with that start the smallest end index.
C5_EarliestThenShortest ==
    Solved =>
        \A r \in MaxRanges(nums) :
            /\ kres[2] <= r[1]
            /\ (r[1] = kres[2] => kres[3] <= r[2])

C5_Witness ==
    /\ Solved
    /\ \E r \in MaxRanges(nums) : r[1] > kres[2]
    /\ \E r \in MaxRanges(nums) : r[1] = kres[2] /\ r[2] > kres[3]

ValidRange(s, a, b) == 0 <= a /\ a <= b /\ b < Len(s)

Checked == outcome.status \in {"success", "info", "error"}

\* C6: a checked valid range is a success exactly when it is kadane's range,
\* an info exactly when its sum is kadane's sum and the range differs, and an
\* error in every other case; a check of a valid range gives one of the three.
C6_GradeClassifies ==
    (outcome.status \notin {"none", "chosen"}
       /\ ValidRange(nums, outcome.start, outcome.end)) =>
        LET best == kadane(nums)
            same == <<outcome.start, outcome.end>> = <<best[2], best[3]>>
            tied == RangeSum(nums, outcome.start, outcome.end) = best[1]
        IN  /\ Checked
            /\ outcome.summed
            /\ outcome.user_sum = RangeSum(nums, outcome.start, outcome.end)
            /\ (outcome.status = "success") = same
            /\ (outcome.status = "info") = (tied /\ ~same)
            /\ (outcome.status = "error") = (~tied)

C6_Witness ==
    /\ outcome.status = "info"
    /\ ValidRange(nums, outcome.start, outcome.end)
    /\ outcome.start > 0

\* C7: handed a range with start > end or an index outside 0..len-1, the
\* grading computes no sum and gives none of the three outcomes.
C7_InvalidRangeRejected ==
    (outcome.status # "none"
       /\ ~ValidRange(nums, outcome.start, outcome.end)) =>
        /\ ~outcome.summed
        /\ ~Checked

\* there is no non-zero integer in low..high
NoNonZero(low, high) == NonZero(low, high) = {}

\* C8: a call whose interval holds no non-zero integer ends with an error.
C8_EmptyIntervalFails ==
    (g_pc = "test" /\ NoNonZero(g_low, g_high)) ~> (g_pc = "raised")

Min(a, b) == IF a < b THEN a ELSE b

\* C9: with advances only, the walk is at index min(advances, n-1), so it
\* reaches n-1 with the (n-1)th advance and never passes it, and the finished
\* walk holds kadane(nums).
C9_WalkFinishesAtKadane ==
    /\ kadane_idx = Min(advances, Len(nums) - 1)
    /\ (advances >= Len(nums) - 1 =>
          /\ Finished
          /\ <<best_sum, best_start, best_end>> = kadane(nums))

C9_Witness ==
    /\ advances = Len(nums) - 1
    /\ Finished
    /\ Len(nums) > 1
    /\ best_start > 0
    /\ <<best_sum, best_start, best_end>> = kadane(nums)

\* C10: the walk is consistent with nums: the indexes are ordered and inside
\* the processed prefix, the two sums are the sums of their ranges, and
\* best_sum is the greatest sum of a subrange of the processed prefix.
C10_WalkConsistent ==
    /\ 0 <= current_start /\ current_start <= kadane_idx
    /\ kadane_idx <= Len(nums) - 1
    /\ 0 <= best_start /\ best_start <= best_end /\ best_end <= kadane_idx
    /\ current_sum = RangeSum(nums, current_start, kadane_idx)
    /\ best_sum = RangeSum(nums, best_start, best_end)
    /\ \A r \in PrefixRanges(kadane_idx) : RangeSum(nums, r[1], r[2]) <= best_sum

C10_Witness ==
    /\ kadane_idx >= 2
    /\ kadane_idx < Len(nums) - 1
    /\ current_start > best_end
    /\ best_start > 0
    /\ last_step_info.kind = "fresh"

====
